---- MODULE Spec2Model ----
(***************************************************************************)
(* Retrieval pipeline of the ASFC document question-answering backend:     *)
(* the pacing limiter (backend/rate_limiter.py), the LLM gateway           *)
(* query_openrouter, the retriever load_relevant_chunks and the answer     *)
(* composer ask_with_rag (pdf-llm-trainer/backend/rag.py).                 *)
(*                                                                         *)
(* Python strings are modelled as sequences of one-character strings, so   *)
(* that parsing, trimming and substring search are computed, not assumed.  *)
(* Python's None is the record NoneVal; any other value v is Some(v).      *)
(***************************************************************************)
EXTENDS Integers, Sequences, FiniteSets, TLC

VARIABLES
    now,                \* wall clock, in seconds (time.time())
    \* query_openrouter, per caller
    pc,                 \* position inside query_openrouter
    max_retries,        \* the max_retries argument
    attempt,            \* loop variable of "for attempt in range(max_retries)"
    in_flight,          \* the provider's answer to the pending requests.post
    log,                \* one entry per finished attempt: the answer, what the loop did
    result,             \* outcome of the call: pending, returned value, raised
    wake,               \* time at which the current time.sleep may return
    requests,           \* every outbound requests.post so far: who sent it and when
    \* ask_with_rag, per caller
    cpc,                \* position inside ask_with_rag
    question,           \* the question argument
    messages,           \* the prompt handed to query_openrouter
    answer,             \* outcome of ask_with_rag
    \* the environment of the retriever
    api_key,            \* OPENROUTER_API_KEY
    chunks_table,       \* rows of the "chunks" table
    chunk_files,        \* the *.jsonl files of CHUNK_DIR, in glob order
    retrieval,          \* the last load_relevant_chunks call and its outcome
    \* RateLimiter
    last_request_time,  \* _rate_limiter.last_request_time
    lock,               \* holder of _rate_limiter.lock, 0 when free
    lpc,                \* per thread: position inside wait_if_needed
    current_time,       \* per thread: the local current_time
    lwake,              \* per thread: time at which the limiter's time.sleep may return
    passed,             \* times at which wait_if_needed recorded last_request_time
    arrived,            \* per thread waiting for the lock, the time it called wait_if_needed
    \* the segmenter
    seg,                \* the current clean_text / chunk_text run: position, text, window, chunks
    \* the HTTP API's tables and files
    chat,               \* the chat_messages table and the POST /api/chat/history requests in progress
    library             \* pdf_documents, the chunks by document_id, CHUNK_DIR, and the request in progress

gateway_vars == <<pc, max_retries, attempt, in_flight, log, result, wake, requests>>
composer_vars == <<cpc, question, messages, answer>>
world_vars == <<api_key, chunks_table, chunk_files>>
limiter_vars == <<last_request_time, lock, lpc, current_time, lwake, passed, arrived>>
segmenter_vars == <<seg>>
api_vars == <<chat, library>>
vars == <<now, gateway_vars, composer_vars, world_vars, retrieval, limiter_vars, segmenter_vars,
          api_vars>>

----------------------------------------------------------------------------
(* Bounds of the model *)

MaxRetries == 3         \* largest max_retries argument explored
ClockStart == 5         \* time.time() when the process starts
MaxTime == 12           \* seconds after which the clock stops ticking
PacingHorizon == 4      \* the same, where two callers run concurrently
MaxRows == 2            \* largest number of rows in the chunks table
MaxTopK == 2            \* largest top_k argument explored
MaxTokens == 3          \* largest number of pieces in a page text
MaxPosts == 4           \* largest number of POST /api/chat/history requests
MaxRequests == 3        \* largest number of upload and delete requests
HistoryLimit == 2       \* limit of get_by_user in chat_history (100 in the source), scaled down
MaxWindows == 5         \* iterations of chunk_text's loop that are followed

Callers == {1, 2}       \* request threads

----------------------------------------------------------------------------
(* Python values *)

NoneVal == [is_none |-> TRUE]
Some(v) == [is_none |-> FALSE, v |-> v]

RECURSIVE Pow2(_)
Pow2(n) == IF n <= 0 THEN 1 ELSE 2 * Pow2(n - 1)

Last(s) == s[Len(s)]

Whitespace == {" ", "\n", "\t"}

RECURSIVE LStrip(_)
LStrip(s) == IF s # <<>> /\ Head(s) \in Whitespace THEN LStrip(Tail(s)) ELSE s

RECURSIVE RStrip(_)
RStrip(s) ==
    IF s # <<>> /\ Last(s) \in Whitespace THEN RStrip(SubSeq(s, 1, Len(s) - 1)) ELSE s

\* str.strip()
Strip(s) == RStrip(LStrip(s))

DigitChars == {"0", "1", "2", "3", "4", "5", "6", "7", "8", "9"}

DigitVal(c) ==
    CASE c = "0" -> 0 [] c = "1" -> 1 [] c = "2" -> 2 [] c = "3" -> 3 [] c = "4" -> 4
      [] c = "5" -> 5 [] c = "6" -> 6 [] c = "7" -> 7 [] c = "8" -> 8 [] c = "9" -> 9

RECURSIVE DecimalValue(_)
DecimalValue(s) ==
    IF s = <<>> THEN 0
    ELSE 10 * DecimalValue(SubSeq(s, 1, Len(s) - 1)) + DigitVal(Last(s))

\* int(s) for a string s: surrounding whitespace is ignored, one optional sign,
\* then at least one decimal digit; anything else is a ValueError (ok = FALSE).
ParseInt(s) ==
    LET t == Strip(s)
        signed == t # <<>> /\ Head(t) \in {"-", "+"}
        digits == IF signed THEN Tail(t) ELSE t
        good == digits # <<>> /\ \A i \in 1..Len(digits) : digits[i] \in DigitChars
    IN  IF good
        THEN [ok |-> TRUE,
              value |-> IF signed /\ Head(t) = "-"
                        THEN 0 - DecimalValue(digits) ELSE DecimalValue(digits)]
        ELSE [ok |-> FALSE, value |-> 0]

----------------------------------------------------------------------------
(* Python strings *)

LowerChar(c) ==
    CASE c = "A" -> "a" [] c = "B" -> "b" [] c = "C" -> "c" [] c = "D" -> "d"
      [] c = "E" -> "e" [] c = "F" -> "f" [] c = "G" -> "g" [] c = "H" -> "h"
      [] c = "I" -> "i" [] c = "J" -> "j" [] c = "K" -> "k" [] c = "L" -> "l"
      [] c = "M" -> "m" [] c = "N" -> "n" [] c = "O" -> "o" [] c = "P" -> "p"
      [] c = "Q" -> "q" [] c = "R" -> "r" [] c = "S" -> "s" [] c = "T" -> "t"
      [] c = "U" -> "u" [] c = "V" -> "v" [] c = "W" -> "w" [] c = "X" -> "x"
      [] c = "Y" -> "y" [] c = "Z" -> "z" [] OTHER -> c

\* str.lower()
Lower(s) == [i \in 1..Len(s) |-> LowerChar(s[i])]

RECURSIVE SplitFrom(_, _, _)
SplitFrom(s, word, acc) ==
    IF s = <<>> THEN (IF word = <<>> THEN acc ELSE Append(acc, word))
    ELSE IF Head(s) \in Whitespace
         THEN SplitFrom(Tail(s), <<>>, IF word = <<>> THEN acc ELSE Append(acc, word))
         ELSE SplitFrom(Tail(s), Append(word, Head(s)), acc)

\* str.split(): the whitespace-delimited words
Split(s) == SplitFrom(s, <<>>, <<>>)

\* w occurs in s at position i
IsAt(s, i, w) == i >= 1 /\ i + Len(w) - 1 <= Len(s) /\ SubSeq(s, i, i + Len(w) - 1) = w

\* "needle in hay"
Contains(hay, needle) == \E i \in 1..(Len(hay) + 1) : IsAt(hay, i, needle)

StartsWith(s, prefix) == IsAt(s, 1, prefix)

\* s[:k]
PySlice(s, k) ==
    IF k >= 0 THEN SubSeq(s, 1, IF k < Len(s) THEN k ELSE Len(s))
    ELSE SubSeq(s, 1, Len(s) + k)

\* dict.get(key, default)
DictGet(d, key, default) == IF key \in DOMAIN d THEN d[key] ELSE default

Min(S) == CHOOSE x \in S : \A y \in S : x <= y

----------------------------------------------------------------------------
(* detect_bulletin_query *)

BULLETIN == <<"b", "u", "l", "l", "e", "t", "i", "n">>
SepChars == Whitespace \cup {"-"}

\* index just after the longest run of digits that starts at i (i when there is none)
RECURSIVE DigitsEnd(_, _)
DigitsEnd(s, i) == IF i <= Len(s) /\ s[i] \in DigitChars THEN DigitsEnd(s, i + 1) ELSE i

\* where group 1 starts when bulletin[\s\-]?(\d+) matches at i, 0 when it does not
NumberStart(s, i) ==
    IF ~IsAt(s, i, BULLETIN) THEN 0
    ELSE LET j == i + Len(BULLETIN) IN
         IF j + 1 <= Len(s) /\ s[j] \in SepChars /\ s[j + 1] \in DigitChars THEN j + 1
         ELSE IF j <= Len(s) /\ s[j] \in DigitChars THEN j
         ELSE 0

\* where group 1 ends (exclusive) for \d+ (decimal = FALSE) or \d+\.\d+ (decimal =
\* TRUE) starting at j, 0 when the group does not match there
NumberEnd(s, j, decimal) ==
    LET e == DigitsEnd(s, j) IN
    IF ~decimal THEN e
    ELSE IF e + 1 <= Len(s) /\ s[e] = "." /\ s[e + 1] \in DigitChars
         THEN DigitsEnd(s, e + 1) ELSE 0

\* re.search(pattern, s).group(1) for the two patterns, None without a match
SearchBulletin(s, decimal) ==
    LET hits == { i \in 1..Len(s) :
                    NumberStart(s, i) # 0 /\ NumberEnd(s, NumberStart(s, i), decimal) # 0 }
    IN  IF hits = {} THEN NoneVal
        ELSE LET j == NumberStart(s, Min(hits))
             IN  Some(SubSeq(s, j, NumberEnd(s, j, decimal) - 1))

\* re.findall(r'\d+', s): [] or the first run of digits
FirstNumber(s) ==
    LET starts == { i \in 1..Len(s) : s[i] \in DigitChars }
    IN  IF starts = {} THEN NoneVal
        ELSE Some(SubSeq(s, Min(starts), DigitsEnd(s, Min(starts)) - 1))

BulletinDash == <<"B", "u", "l", "l", "e", "t", "i", "n", "-">>

detect_bulletin_query(query) ==
    LET query_lower == Lower(query)
        first == SearchBulletin(query_lower, FALSE)
        second == SearchBulletin(query_lower, TRUE)
        number == FirstNumber(query)
    IN  IF ~first.is_none THEN Some(BulletinDash \o first.v)
        ELSE IF ~second.is_none THEN Some(BulletinDash \o second.v)
        ELSE IF Contains(query_lower, BULLETIN) /\ ~number.is_none
             THEN Some(BulletinDash \o number.v)
        ELSE NoneVal

----------------------------------------------------------------------------
(* ChunkRepository: the "chunks" table is a sequence of rows
   [id, source, page, text, embedded]; text is Some(string) or NoneVal (NULL) *)

\* column ILIKE pattern, for a pattern without wildcard characters of its own:
\* prefix = TRUE is 'pattern%', inner = TRUE is '%pattern%'
ILike(value, pattern, prefix, inner) ==
    IF inner THEN Contains(Lower(value), Lower(pattern))
    ELSE IF prefix THEN StartsWith(Lower(value), Lower(pattern))
    ELSE Lower(value) = Lower(pattern)

get_by_source(table, source) ==
    LET Exact(r) == r.source = source
        Prefix(r) == ILike(r.source, source, TRUE, FALSE)
        WithPdf(r) == ILike(r.source, source \o <<".", "p", "d", "f">>, FALSE, FALSE)
    IN  IF SelectSeq(table, Exact) # <<>> THEN SelectSeq(table, Exact)
        ELSE IF SelectSeq(table, Prefix) # <<>> THEN SelectSeq(table, Prefix)
        ELSE IF SelectSeq(table, WithPdf) # <<>> THEN SelectSeq(table, WithPdf)
        ELSE <<>>

TextILike(r, pattern) == ~r.text.is_none /\ ILike(r.text.v, pattern, FALSE, TRUE)

\* the loop over query_words of the text search: rows not seen yet, by id
RECURSIVE CollectWords(_, _, _, _)
CollectWords(table, words, limit, all_results) ==
    IF words = <<>> THEN all_results
    ELSE LET Hit(r) == TextILike(r, Head(words))
             word_result == PySlice(SelectSeq(table, Hit), limit * 2)
             New(r) == r.id # 0 /\ \A k \in 1..Len(all_results) : all_results[k].id # r.id
         IN  CollectWords(table, Tail(words), limit, all_results \o SelectSeq(word_result, New))

\* every order in which the rows of s can come out of the similarity sort
Orders(s) == { [i \in 1..Len(s) |-> s[p[i]]] : p \in Permutations(1..Len(s)) }

\* semantic = semantic search is enabled and generate_embedding(query) gave a
\* vector; the similarities come from the embedding model, so any order of the
\* embedded rows is possible. The result is a set of candidate pools.
search_by_text(table, query, limit, semantic) ==
    LET Embedded(r) == r.embedded
        Long(w) == Len(Strip(w)) > 2
        Whole(r) == TextILike(r, query)
        query_words == SelectSeq(Split(Lower(query)), Long)
    IN  IF semantic /\ SelectSeq(table, Embedded) # <<>>
        THEN { PySlice(o, limit) : o \in Orders(SelectSeq(table, Embedded)) }
        ELSE IF query_words = <<>> THEN { PySlice(SelectSeq(table, Whole), limit) }
        ELSE { PySlice(CollectWords(table, query_words, limit, <<>>), limit) }

----------------------------------------------------------------------------
(* load_relevant_chunks *)

BadLine == [bad_line |-> TRUE]          \* a line of a chunk file that is not JSON
NotADict == [not_a_dict |-> TRUE]       \* a JSON line that is not an object
IsDict(x) == "not_a_dict" \notin DOMAIN x

OkChunks(chunks) == [raised |-> FALSE, error |-> "", chunks |-> chunks]
RaisedOut(e) == [raised |-> TRUE, error |-> e, chunks |-> <<>>]

\* list.sort(key=lambda x: x.get('page', 0)): stable
RECURSIVE InsertByPage(_, _)
InsertByPage(sorted, x) ==
    IF sorted = <<>> THEN <<x>>
    ELSE IF DictGet(Last(sorted), "page", 0) <= DictGet(x, "page", 0) THEN Append(sorted, x)
    ELSE Append(InsertByPage(SubSeq(sorted, 1, Len(sorted) - 1), x), Last(sorted))

RECURSIVE SortByPage(_)
SortByPage(s) ==
    IF s = <<>> THEN <<>> ELSE InsertByPage(SortByPage(SubSeq(s, 1, Len(s) - 1)), Last(s))

\* the dictionary built from a database row
ChunkDict(db_chunk) ==
    [text |-> DictGet(db_chunk, "text", Some(<<>>)),
     source |-> DictGet(db_chunk, "source", <<"u", "n", "k", "n", "o", "w", "n">>),
     page |-> DictGet(db_chunk, "page", 0)]

\* the chunks read from one chunk file: reading stops at the first line that
\* json.loads rejects, the chunks read before it are kept
RECURSIVE ReadLines(_)
ReadLines(lines) ==
    IF lines = <<>> \/ Head(lines) = BadLine THEN <<>>
    ELSE <<Head(lines)>> \o ReadLines(Tail(lines))

RECURSIVE ReadFiles(_)
ReadFiles(files) ==
    IF files = <<>> THEN <<>> ELSE ReadLines(Head(files).lines) \o ReadFiles(Tail(files))

\* the file system fallback
FileChunks(files, bulletin_source) ==
    IF ~bulletin_source.is_none
    THEN LET Named(f) == f.name = Lower(bulletin_source.v) \o <<".", "j", "s", "o", "n", "l">>
         IN  ReadFiles(SelectSeq(files, Named))
    ELSE ReadFiles(files)

\* all_chunks after the try/except: the set of possible lists
AllChunks(query, top_k, table, files, db_ok, semantic) ==
    LET bulletin_source == detect_bulletin_query(query)
        pools == IF ~bulletin_source.is_none
                 THEN { SortByPage(get_by_source(table, bulletin_source.v)) }
                 ELSE search_by_text(table, query, top_k * 2, semantic)
    IN  IF db_ok THEN { [i \in 1..Len(p) |-> ChunkDict(p[i])] : p \in pools }
        ELSE { FileChunks(files, bulletin_source) }

\* "sum(1 for term in query_terms if term in text_lower)"
Score(chunk, query_terms) ==
    LET text_lower == Lower(DictGet(chunk, "text", Some(<<>>)).v)
    IN  Cardinality({ i \in 1..Len(query_terms) : Contains(text_lower, query_terms[i]) })

\* chunk.get('text', '').lower() raises on a chunk that is no dict or whose text is None
Scorable(chunk) == IsDict(chunk) /\ ~DictGet(chunk, "text", Some(<<>>)).is_none

\* InsertByScore putting a chunk ahead of the chunks of equal score
RECURSIVE InsertByScoreUnstable(_, _, _)
InsertByScoreUnstable(sorted, x, query_terms) ==
    IF sorted = <<>> THEN <<x>>
    ELSE IF Score(Last(sorted), query_terms) > Score(x, query_terms) THEN Append(sorted, x)
    ELSE Append(InsertByScoreUnstable(SubSeq(sorted, 1, Len(sorted) - 1), x, query_terms),
                Last(sorted))

\* sort(key=score, reverse=True) keeps the order of equal scores: insert each
\* chunk behind the chunks that score at least as much
RECURSIVE InsertByScore(_, _, _)
InsertByScore(sorted, x, query_terms) ==
    IF sorted = <<>> THEN <<x>>
    ELSE IF Score(Last(sorted), query_terms) >= Score(x, query_terms) THEN Append(sorted, x)
    ELSE Append(InsertByScore(SubSeq(sorted, 1, Len(sorted) - 1), x, query_terms),
                Last(sorted))

RECURSIVE SortByScore(_, _)
SortByScore(s, query_terms) ==
    IF s = <<>> THEN <<>>
    ELSE InsertByScore(SortByScore(SubSeq(s, 1, Len(s) - 1), query_terms), Last(s),
                       query_terms)

\* SelectChunks returning every positive-score chunk, without the cut at top_k
SelectChunksUncut(all_chunks, query, top_k) ==
    LET query_terms == Split(Lower(query))
        Positive(c) == Score(c, query_terms) > 0
    IN  IF all_chunks = <<>> THEN OkChunks(<<>>)
        ELSE IF ~detect_bulletin_query(query).is_none THEN OkChunks(all_chunks)
        ELSE IF \E i \in 1..Len(all_chunks) : ~Scorable(all_chunks[i])
             THEN RaisedOut("AttributeError")
        ELSE LET scored_chunks == SortByScore(SelectSeq(all_chunks, Positive), query_terms)
             IN  IF scored_chunks # <<>> THEN OkChunks(scored_chunks)
                 ELSE OkChunks(PySlice(all_chunks, top_k))

\* SelectChunks returning nothing when no chunk scores
SelectChunksNoFallback(all_chunks, query, top_k) ==
    LET query_terms == Split(Lower(query))
        Positive(c) == Score(c, query_terms) > 0
    IN  IF all_chunks = <<>> THEN OkChunks(<<>>)
        ELSE IF ~detect_bulletin_query(query).is_none THEN OkChunks(all_chunks)
        ELSE IF \E i \in 1..Len(all_chunks) : ~Scorable(all_chunks[i])
             THEN RaisedOut("AttributeError")
        ELSE OkChunks(PySlice(SortByScore(SelectSeq(all_chunks, Positive), query_terms),
                              top_k))

\* the part of load_relevant_chunks after the chunks are loaded
SelectChunks(all_chunks, query, top_k) ==
    LET query_terms == Split(Lower(query))
        Positive(c) == Score(c, query_terms) > 0
    IN  IF all_chunks = <<>> THEN OkChunks(<<>>)
        ELSE IF ~detect_bulletin_query(query).is_none THEN OkChunks(all_chunks)
        ELSE IF \E i \in 1..Len(all_chunks) : ~Scorable(all_chunks[i])
             THEN RaisedOut("AttributeError")
        ELSE LET scored_chunks == SortByScore(SelectSeq(all_chunks, Positive), query_terms)
             IN  IF scored_chunks # <<>> THEN OkChunks(PySlice(scored_chunks, top_k))
                 ELSE OkChunks(PySlice(all_chunks, top_k))

\* load_relevant_chunks(query, top_k): the set of possible outcomes; db_ok is
\* FALSE when a chunk store lookup raises
load_relevant_chunks(query, top_k, table, files, db_ok, semantic) ==
    { SelectChunks(all_chunks, query, top_k) :
        all_chunks \in AllChunks(query, top_k, table, files, db_ok, semantic) }

----------------------------------------------------------------------------
(* clean_response *)

UpperChars == { "A", "B", "C", "D", "E", "F", "G", "H", "I", "J", "K", "L", "M", "N",
                "O", "P", "Q", "R", "S", "T", "U", "V", "W", "X", "Y", "Z" }
Punctuation == { ",", ".", "!", "?", ";", ":" }

\* index just after the run of characters of set cs that starts at i
RECURSIVE RunEnd(_, _, _)
RunEnd(s, i, cs) == IF i <= Len(s) /\ s[i] \in cs THEN RunEnd(s, i + 1, cs) ELSE i

\* re.sub(r'\n{3,}', '\n\n', s)
RECURSIVE CollapseNewlines(_)
CollapseNewlines(s) ==
    IF s = <<>> THEN <<>>
    ELSE LET e == RunEnd(s, 1, {"\n"}) IN
         IF e - 1 >= 3 THEN <<"\n", "\n">> \o CollapseNewlines(SubSeq(s, e, Len(s)))
         ELSE IF e - 1 >= 1 THEN SubSeq(s, 1, e - 1) \o CollapseNewlines(SubSeq(s, e, Len(s)))
         ELSE <<Head(s)>> \o CollapseNewlines(Tail(s))

\* s.split('\n')
RECURSIVE SplitLines(_, _)
SplitLines(s, line) ==
    IF s = <<>> THEN <<line>>
    ELSE IF Head(s) = "\n" THEN <<line>> \o SplitLines(Tail(s), <<>>)
    ELSE SplitLines(Tail(s), Append(line, Head(s)))

\* '\n'.join(lines)
RECURSIVE JoinLines(_)
JoinLines(lines) ==
    IF lines = <<>> THEN <<>>
    ELSE IF Len(lines) = 1 THEN lines[1]
    ELSE lines[1] \o <<"\n">> \o JoinLines(Tail(lines))

\* "while lines and not lines[0]: lines.pop(0)" and the same at the end
RECURSIVE DropEmptyFront(_)
DropEmptyFront(lines) ==
    IF lines # <<>> /\ Head(lines) = <<>> THEN DropEmptyFront(Tail(lines)) ELSE lines

RECURSIVE DropEmptyBack(_)
DropEmptyBack(lines) ==
    IF lines # <<>> /\ Last(lines) = <<>>
    THEN DropEmptyBack(SubSeq(lines, 1, Len(lines) - 1)) ELSE lines

\* re.sub(r'\s+([,.!?;:])', r'\1', s)
RECURSIVE TightenPunctuation(_)
TightenPunctuation(s) ==
    IF s = <<>> THEN <<>>
    ELSE LET e == RunEnd(s, 1, Whitespace) IN
         IF e > 1 /\ e <= Len(s) /\ s[e] \in Punctuation
         THEN <<s[e]>> \o TightenPunctuation(SubSeq(s, e + 1, Len(s)))
         ELSE IF e > 1 THEN SubSeq(s, 1, e - 1) \o TightenPunctuation(SubSeq(s, e, Len(s)))
         ELSE <<Head(s)>> \o TightenPunctuation(Tail(s))

\* re.sub(r'([,.!?;:])\s*([A-Z])', r'\1 \2', s) for marks = Punctuation and
\* re.sub(r'\.([A-Z])', r'. \1', s) for marks = {"."} with no whitespace allowed
RECURSIVE SpaceAfter(_, _, _)
SpaceAfter(s, marks, blanks) ==
    IF s = <<>> THEN <<>>
    ELSE LET e == RunEnd(s, 2, blanks) IN
         IF Head(s) \in marks /\ e <= Len(s) /\ s[e] \in UpperChars
         THEN <<Head(s), " ", s[e]>> \o SpaceAfter(SubSeq(s, e + 1, Len(s)), marks, blanks)
         ELSE <<Head(s)>> \o SpaceAfter(Tail(s), marks, blanks)

clean_response(text) ==
    IF text = <<>> THEN text
    ELSE LET collapsed == CollapseNewlines(text)
             split == SplitLines(collapsed, <<>>)
             lines == [i \in 1..Len(split) |-> Strip(split[i])]
             cleaned == JoinLines(DropEmptyBack(DropEmptyFront(lines)))
             tight == TightenPunctuation(cleaned)
             spaced == SpaceAfter(tight, Punctuation, Whitespace)
         IN  Strip(SpaceAfter(spaced, {"."}, {}))

----------------------------------------------------------------------------
(* The LLM provider, as query_openrouter sees it *)

NoHeaders == [h \in {} |-> <<>>]
RetryAfter(s) == [h \in {"retry-after"} |-> s]

\* response.headers.get(name, None)
HeaderGet(headers, name) ==
    IF name \in DOMAIN headers THEN Some(headers[name]) ELSE NoneVal

\* retry-after header values the provider may send with a 429
RetryAfterHeaders ==
    { NoHeaders, RetryAfter(<<>>), RetryAfter(<<"3">>), RetryAfter(<<"0">>),
      RetryAfter(<<"-", "1">>), RetryAfter(<<"s", "o", "o", "n">>) }

\* model texts the provider may put in choices[0].message.content
Texts == { <<>>, <<"o", "k">>, <<" ", "O", "k", " ", ".", "\n">> }

NoBody == [valid_json |-> FALSE, data |-> NoneVal]
JsonBody(d) == [valid_json |-> TRUE, data |-> d]

\* bodies the provider may send with a 200: well formed with each text, and the
\* malformed shapes (no "choices", empty "choices", a choice without "message",
\* a message without "content", a body that is not JSON)
WellFormedBodies ==
    { JsonBody([choices |-> <<[message |-> [content |-> t]]>>]) : t \in Texts }
MalformedBodies ==
    { JsonBody([error |-> <<"e">>]),
      JsonBody([choices |-> <<>>]),
      JsonBody([choices |-> <<[finish_reason |-> <<"s">>]>>]),
      JsonBody([choices |-> <<[message |-> [role |-> <<"a">>]]>>]),
      NoBody }

HttpResponse(status, headers, body) ==
    [raised |-> FALSE, status |-> status, headers |-> headers, body |-> body]

\* requests.post raising requests.exceptions.RequestException (timeout, connection error)
TransportError == [raised |-> TRUE, status |-> 0, headers |-> NoHeaders, body |-> NoBody]

ProviderAnswers ==
    { HttpResponse(200, NoHeaders, b) : b \in WellFormedBodies \cup MalformedBodies }
    \cup { HttpResponse(429, h, NoBody) : h \in RetryAfterHeaders }
    \cup { HttpResponse(s, NoHeaders, NoBody) : s \in {404, 401, 500} }
    \cup { TransportError }

----------------------------------------------------------------------------
(* query_openrouter: what one iteration of the retry loop does with an answer *)

Return(v) == [kind |-> "return", value |-> v, secs |-> 0, error |-> ""]
Raise(e) == [kind |-> "raise", value |-> NoneVal, secs |-> 0, error |-> e]
NextAttempt == [kind |-> "next", value |-> NoneVal, secs |-> 0, error |-> ""]

\* time.sleep(secs) followed by the next iteration; a negative length is a ValueError
Sleep(secs) ==
    IF secs < 0 THEN Raise("ValueError")
    ELSE [kind |-> "sleep", value |-> NoneVal, secs |-> secs, error |-> ""]

\* Backoff that sleeps after the last attempt too
BackoffOnLast(a, mr) == Sleep(Pow2(a))

\* "if attempt < max_retries - 1: time.sleep(2 ** attempt)"
Backoff(a, mr) == IF a < mr - 1 THEN Sleep(Pow2(a)) ELSE NextAttempt

\* the 200 branch; response.json() on a body that is not JSON raises a
\* JSONDecodeError, which is a RequestException (caught by the except clause) or
\* a plain ValueError (not caught) depending on the installed requests version
On200(r, a, mr) ==
    IF ~r.body.valid_json THEN {Backoff(a, mr), Raise("JSONDecodeError")}
    ELSE LET data == r.body.data IN
         IF "choices" \in DOMAIN data /\ Len(data.choices) > 0
         THEN LET choice == data.choices[1] IN
              IF "message" \notin DOMAIN choice THEN {Raise("KeyError")}
              ELSE IF "content" \notin DOMAIN choice.message THEN {Raise("KeyError")}
              ELSE {Return(Some(choice.message.content))}
         ELSE {Return(NoneVal)}

\* the 429 branch
On429(r, a, mr) ==
    LET retry_after == HeaderGet(r.headers, "retry-after")
        parsed == IF retry_after.is_none THEN [ok |-> FALSE, value |-> 0]
                  ELSE ParseInt(retry_after.v)
        wait_time == IF ~retry_after.is_none /\ retry_after.v # <<>> /\ parsed.ok
                     THEN parsed.value ELSE 2
    IN  IF a < mr - 1 THEN {Sleep(wait_time)} ELSE {Return(NoneVal)}

\* HandleResponse with 404 and 401 falling into the branch of the other statuses
HandleResponseRetry404(r, a, mr) ==
    IF r.raised THEN {Backoff(a, mr)}
    ELSE IF r.status = 200 THEN On200(r, a, mr)
    ELSE IF r.status = 429 THEN On429(r, a, mr)
    ELSE {Backoff(a, mr)}

\* body of the for loop after requests.post: the set of things it may do
HandleResponse(r, a, mr) ==
    IF r.raised THEN {Backoff(a, mr)}
    ELSE IF r.status = 200 THEN On200(r, a, mr)
    ELSE IF r.status = 429 THEN On429(r, a, mr)
    ELSE IF r.status = 404 THEN {Return(NoneVal)}
    ELSE IF r.status = 401 THEN {Return(NoneVal)}
    ELSE {Backoff(a, mr)}

Pending == [kind |-> "pending", value |-> NoneVal, error |-> ""]
Returned(v) == [kind |-> "returned", value |-> v, error |-> ""]
Raised(e) == [kind |-> "raised", value |-> NoneVal, error |-> e]

\* query_openrouter is entered with max_retries = mr
EnterGateway(t, mr) ==
    /\ pc' = [pc EXCEPT ![t] = "loop"]
    /\ max_retries' = [max_retries EXCEPT ![t] = mr]
    /\ attempt' = [attempt EXCEPT ![t] = 0]
    /\ log' = [log EXCEPT ![t] = <<>>]
    /\ result' = [result EXCEPT ![t] = Pending]
    /\ UNCHANGED <<in_flight, wake, requests>>

\* a caller other than ask_with_rag calls query_openrouter(messages, mr)
Call(t, mr) ==
    /\ pc[t] = "idle" /\ cpc[t] = "idle"
    /\ EnterGateway(t, mr)
    /\ cpc' = [cpc EXCEPT ![t] = "direct"]
    /\ UNCHANGED <<now, question, messages, answer, world_vars, segmenter_vars, api_vars, retrieval, limiter_vars>>

\* requests.post(url, ...) of the current attempt leaves the process
Post(t) ==
    /\ pc[t] = "loop"
    /\ attempt[t] < max_retries[t]
    /\ requests' = Append(requests, [by |-> t, at |-> now])
    /\ pc' = [pc EXCEPT ![t] = "posted"]
    /\ UNCHANGED <<now, max_retries, attempt, in_flight, log, result, wake>>
    /\ UNCHANGED <<composer_vars, world_vars, segmenter_vars, api_vars, retrieval, limiter_vars>>

\* the provider answers the pending request (or the transport fails)
Answer(t, r) ==
    /\ pc[t] = "posted"
    /\ in_flight' = [in_flight EXCEPT ![t] = Some(r)]
    /\ pc' = [pc EXCEPT ![t] = "answered"]
    /\ UNCHANGED <<now, max_retries, attempt, log, result, wake, requests>>
    /\ UNCHANGED <<composer_vars, world_vars, segmenter_vars, api_vars, retrieval, limiter_vars>>

\* the loop body handles the answer
Handle(t) ==
    /\ pc[t] = "answered"
    /\ \E step \in HandleResponse(in_flight[t].v, attempt[t], max_retries[t]) :
        /\ log' = [log EXCEPT ![t] = Append(@, [answer |-> in_flight[t].v, did |-> step])]
        /\ in_flight' = [in_flight EXCEPT ![t] = NoneVal]
        /\ CASE step.kind = "return" ->
                  /\ result' = [result EXCEPT ![t] = Returned(step.value)]
                  /\ pc' = [pc EXCEPT ![t] = "done"]
                  /\ UNCHANGED <<attempt, wake>>
             [] step.kind = "raise" ->
                  /\ result' = [result EXCEPT ![t] = Raised(step.error)]
                  /\ pc' = [pc EXCEPT ![t] = "done"]
                  /\ UNCHANGED <<attempt, wake>>
             [] step.kind = "sleep" ->
                  /\ wake' = [wake EXCEPT ![t] = now + step.secs]
                  /\ pc' = [pc EXCEPT ![t] = "sleeping"]
                  /\ UNCHANGED <<attempt, result>>
             [] step.kind = "next" ->
                  /\ attempt' = [attempt EXCEPT ![t] = @ + 1]
                  /\ pc' = [pc EXCEPT ![t] = "loop"]
                  /\ UNCHANGED <<result, wake>>
    /\ UNCHANGED <<now, max_retries, requests>>
    /\ UNCHANGED <<composer_vars, world_vars, segmenter_vars, api_vars, retrieval, limiter_vars>>

\* time.sleep returns, the loop goes to its next iteration
WakeUp(t) ==
    /\ pc[t] = "sleeping"
    /\ now >= wake[t]
    /\ attempt' = [attempt EXCEPT ![t] = @ + 1]
    /\ pc' = [pc EXCEPT ![t] = "loop"]
    /\ UNCHANGED <<now, max_retries, in_flight, log, result, wake, requests>>
    /\ UNCHANGED <<composer_vars, world_vars, segmenter_vars, api_vars, retrieval, limiter_vars>>

\* range(max_retries) is used up: "All retry attempts failed", return None
Exhausted(t) ==
    /\ pc[t] = "loop"
    /\ attempt[t] >= max_retries[t]
    /\ result' = [result EXCEPT ![t] = Returned(NoneVal)]
    /\ pc' = [pc EXCEPT ![t] = "done"]
    /\ UNCHANGED <<now, max_retries, attempt, in_flight, log, wake, requests>>
    /\ UNCHANGED <<composer_vars, world_vars, segmenter_vars, api_vars, retrieval, limiter_vars>>

\* one second passes, up to horizon seconds after the start
TickTo(horizon) ==
    /\ now < ClockStart + horizon
    /\ now' = now + 1
    /\ UNCHANGED <<gateway_vars, composer_vars, world_vars, segmenter_vars, api_vars, retrieval, limiter_vars>>

Tick == TickTo(MaxTime)

\* one second of a caller's time.sleep passes
SleepTick(t) ==
    /\ pc[t] = "sleeping"
    /\ now < wake[t]
    /\ Tick

----------------------------------------------------------------------------
(* The retriever called on the chunk store and the chunk files *)

NoRetrieval ==
    [called |-> FALSE, query |-> <<>>, top_k |-> 0, db_ok |-> TRUE,
     pool |-> <<>>, out |-> OkChunks(<<>>)]

\* generate_embedding(query) gives None for a blank query and without a key
CanEmbed(q) == api_key # <<>> /\ Strip(q) # <<>>

\* load_relevant_chunks(q, k); db_ok = FALSE: a chunk store lookup raises
LoadChunks(q, k, db_ok, semantic) ==
    /\ semantic => CanEmbed(q)
    /\ \E all_chunks \in AllChunks(q, k, chunks_table, chunk_files, db_ok, semantic) :
          retrieval' = [called |-> TRUE, query |-> q, top_k |-> k, db_ok |-> db_ok,
                        pool |-> all_chunks, out |-> SelectChunks(all_chunks, q, k)]
    /\ UNCHANGED <<now, world_vars, segmenter_vars, api_vars, limiter_vars>>

\* a caller invokes load_relevant_chunks(q, k) once
Retrieve(q, k, db_ok, semantic) ==
    /\ ~retrieval.called
    /\ LoadChunks(q, k, db_ok, semantic)
    /\ UNCHANGED <<gateway_vars, composer_vars>>

----------------------------------------------------------------------------
(* ask_with_rag *)

CONFIG_ERROR == <<"E", "r", "r", "o", "r", ":", " ", "O", "P", "E", "N", "R", "O", "U", "T", "E", "R", "_", "A", "P", "I", "_", "K", "E", "Y", " ", "n", "o", "t", " ", "s", "e", "t", " ", "i", "n", " ", ".", "e", "n", "v">>
APOLOGY ==
    << "I", "'", "m", " ", "c", "u", "r", "r", "e", "n", "t", "l", "y", " ", "u", "n",
       "a", "b", "l", "e", " ", "t", "o", " ", "p", "r", "o", "c", "e", "s", "s", " ",
       "y", "o", "u", "r", " ", "q", "u", "e", "s", "t", "i", "o", "n", " ", "d", "u",
       "e", " ", "t", "o", " ", "r", "a", "t", "e", " ", "l", "i", "m", "i", "t", "i",
       "n", "g", ".", " ", "P", "l", "e", "a", "s", "e", " ", "w", "a", "i", "t", " ",
       "3", "0", " ", "s", "e", "c", "o", "n", "d", "s", " ", "a", "n", "d", " ", "t",
       "r", "y", " ", "a", "g", "a", "i", "n", ".", " ", "T", "h", "e", " ", "s", "y",
       "s", "t", "e", "m", " ", "i", "s", " ", "a", "u", "t", "o", "m", "a", "t", "i",
       "c", "a", "l", "l", "y", " ", "m", "a", "n", "a", "g", "i", "n", "g", " ", "r",
       "e", "q", "u", "e", "s", "t", " ", "t", "i", "m", "i", "n", "g", " ", "t", "o",
       " ", "a", "v", "o", "i", "d", " ", "e", "r", "r", "o", "r", "s", "." >>

TOP_K == 3                  \* backend/config.py, default of the TOP_K setting
DefaultMaxRetries == 3      \* default of query_openrouter's max_retries
ContextChars == 1500        \* characters of a chunk put into the prompt

\* "if response:" is false for None and for the empty string
Truthy(v) == ~v.is_none /\ v.v # <<>>

\* chunk.get(...) needs a dict, chunk.get('text', '')[:1500] a text that is not None
Quotable(chunk) == IsDict(chunk) /\ ~DictGet(chunk, "text", Some(<<>>)).is_none

\* the user message: which of the three prompts, and the chunk texts put in it
BuildMessages(q, relevant_chunks) ==
    [mode |-> IF relevant_chunks = <<>> THEN "no_context"
              ELSE IF ~detect_bulletin_query(q).is_none THEN "bulletin"
              ELSE "regular",
     blocks |-> [i \in 1..Len(relevant_chunks) |->
                   PySlice(DictGet(relevant_chunks[i], "text", Some(<<>>)).v, ContextChars)]]

NoMessages == [mode |-> "none", blocks |-> <<>>]

\* what ask_with_rag returns for the gateway's result
ComposeAnswer(response) ==
    IF response.kind = "raised" THEN Raised(response.error)
    ELSE IF Truthy(response.value) THEN Returned(Some(clean_response(response.value.v)))
    ELSE Returned(Some(APOLOGY))

\* Ask without the credential check
AskNoKeyCheck(t, q) ==
    /\ cpc[t] = "idle" /\ pc[t] = "idle"
    /\ question' = [question EXCEPT ![t] = q]
    /\ cpc' = [cpc EXCEPT ![t] = "retrieve"]
    /\ UNCHANGED <<now, answer, messages, gateway_vars, world_vars, segmenter_vars, api_vars, retrieval, limiter_vars>>

\* ask_with_rag(q) is entered: the credential check
Ask(t, q) ==
    /\ cpc[t] = "idle" /\ pc[t] = "idle"
    /\ question' = [question EXCEPT ![t] = q]
    /\ IF api_key = <<>>
       THEN /\ answer' = [answer EXCEPT ![t] = Returned(Some(CONFIG_ERROR))]
            /\ cpc' = [cpc EXCEPT ![t] = "done"]
       ELSE /\ cpc' = [cpc EXCEPT ![t] = "retrieve"]
            /\ UNCHANGED answer
    /\ UNCHANGED <<now, messages, gateway_vars, world_vars, segmenter_vars, api_vars, retrieval, limiter_vars>>

\* relevant_chunks = load_relevant_chunks(question, top_k=TOP_K)
AskRetrieve(t, db_ok, semantic) ==
    /\ cpc[t] = "retrieve"
    /\ LoadChunks(question[t], TOP_K, db_ok, semantic)
    /\ IF retrieval'.out.raised
       THEN /\ answer' = [answer EXCEPT ![t] = Raised(retrieval'.out.error)]
            /\ cpc' = [cpc EXCEPT ![t] = "done"]
       ELSE /\ cpc' = [cpc EXCEPT ![t] = "compose"]
            /\ UNCHANGED answer
    /\ UNCHANGED <<question, messages, gateway_vars>>

\* the prompt is built and query_openrouter(messages) is called
AskCompose(t) ==
    /\ cpc[t] = "compose"
    /\ LET relevant_chunks == retrieval.out.chunks IN
       IF \E i \in 1..Len(relevant_chunks) : ~Quotable(relevant_chunks[i])
       THEN /\ answer' = [answer EXCEPT ![t] =
                            Raised(IF \E i \in 1..Len(relevant_chunks) :
                                        ~IsDict(relevant_chunks[i])
                                   THEN "AttributeError" ELSE "TypeError")]
            /\ cpc' = [cpc EXCEPT ![t] = "done"]
            /\ UNCHANGED <<messages, gateway_vars>>
       ELSE /\ messages' = [messages EXCEPT ![t] = BuildMessages(question[t], relevant_chunks)]
            /\ cpc' = [cpc EXCEPT ![t] = "gateway"]
            /\ EnterGateway(t, DefaultMaxRetries)
            /\ UNCHANGED answer
    /\ UNCHANGED <<now, question, world_vars, segmenter_vars, api_vars, retrieval, limiter_vars>>

\* query_openrouter has ended: the answer is cleaned, or the apology is returned
AskFinish(t) ==
    /\ cpc[t] = "gateway" /\ pc[t] = "done"
    /\ answer' = [answer EXCEPT ![t] = ComposeAnswer(result[t])]
    /\ cpc' = [cpc EXCEPT ![t] = "done"]
    /\ UNCHANGED <<now, question, messages, gateway_vars, world_vars, segmenter_vars, api_vars, retrieval, limiter_vars>>

----------------------------------------------------------------------------
(* RateLimiter.wait_if_needed on the one process-wide limiter *)

MinDelay == 5       \* _rate_limiter = RateLimiter(min_delay_seconds=5.0)

\* "wait_time = self.min_delay - time_since_last"
WaitTime(cur, last) == MinDelay - (cur - last)

\* wait_if_needed is called: the thread reaches "with self.lock"
Arrive(t) ==
    /\ lpc[t] = "idle"
    /\ lpc' = [lpc EXCEPT ![t] = "at_gate"]
    /\ arrived' = [arrived EXCEPT ![t] = now]
    /\ UNCHANGED <<last_request_time, lock, current_time, lwake, passed>>
    /\ UNCHANGED <<now, gateway_vars, composer_vars, world_vars, segmenter_vars, api_vars, retrieval>>

\* Acquire without mutual exclusion: the lock is taken even when it is held
AcquireUnlocked(t) ==
    /\ lpc[t] = "at_gate"
    /\ lock' = t
    /\ lpc' = [lpc EXCEPT ![t] = "locked"]
    /\ arrived' = [arrived EXCEPT ![t] = 0]
    /\ UNCHANGED <<last_request_time, current_time, lwake, passed>>
    /\ UNCHANGED <<now, gateway_vars, composer_vars, world_vars, segmenter_vars, api_vars, retrieval>>

\* the lock is acquired
Acquire(t) ==
    /\ lpc[t] = "at_gate"
    /\ lock = 0
    /\ lock' = t
    /\ lpc' = [lpc EXCEPT ![t] = "locked"]
    /\ arrived' = [arrived EXCEPT ![t] = 0]
    /\ UNCHANGED <<last_request_time, current_time, lwake, passed>>
    /\ UNCHANGED <<now, gateway_vars, composer_vars, world_vars, segmenter_vars, api_vars, retrieval>>

\* current_time = time.time() and the test "time_since_last < self.min_delay"
ReadClock(t) ==
    /\ lpc[t] = "locked"
    /\ current_time' = [current_time EXCEPT ![t] = now]
    /\ IF now - last_request_time < MinDelay
       THEN /\ lwake' = [lwake EXCEPT ![t] = now + WaitTime(now, last_request_time)]
            /\ lpc' = [lpc EXCEPT ![t] = "sleeping"]
       ELSE /\ lpc' = [lpc EXCEPT ![t] = "record"]
            /\ UNCHANGED lwake
    /\ UNCHANGED <<last_request_time, lock, passed, arrived>>
    /\ UNCHANGED <<now, gateway_vars, composer_vars, world_vars, segmenter_vars, api_vars, retrieval>>

\* time.sleep(wait_time) returns
EndWait(t) ==
    /\ lpc[t] = "sleeping"
    /\ now >= lwake[t]
    /\ lpc' = [lpc EXCEPT ![t] = "record"]
    /\ UNCHANGED <<last_request_time, lock, current_time, lwake, passed, arrived>>
    /\ UNCHANGED <<now, gateway_vars, composer_vars, world_vars, segmenter_vars, api_vars, retrieval>>

\* self.last_request_time = time.time()
Record(t) ==
    /\ lpc[t] = "record"
    /\ last_request_time' = now
    /\ passed' = Append(passed, [by |-> t, at |-> now])
    /\ lpc' = [lpc EXCEPT ![t] = "release"]
    /\ UNCHANGED <<lock, current_time, lwake, arrived>>
    /\ UNCHANGED <<now, gateway_vars, composer_vars, world_vars, segmenter_vars, api_vars, retrieval>>

\* the with block ends: the lock is released and wait_if_needed returns
Release(t) ==
    /\ lpc[t] = "release"
    /\ lock' = 0
    /\ lpc' = [lpc EXCEPT ![t] = "idle"]
    /\ UNCHANGED <<last_request_time, current_time, lwake, passed, arrived>>
    /\ UNCHANGED <<now, gateway_vars, composer_vars, world_vars, segmenter_vars, api_vars, retrieval>>

----------------------------------------------------------------------------
(* clean_text and chunk_text (pdf_processor.py). The characters U+2019,
   U+201C, U+201D, U+2013 and U+2014 are written "u2019" ... "u2014". *)

\* s[a:b] with Python's rules for negative and out-of-range indices
SliceBounds(n, a, b) ==
    LET Clip(i) == IF i < 0 THEN (IF i + n < 0 THEN 0 ELSE i + n)
                   ELSE IF i > n THEN n ELSE i
    IN  [lo |-> Clip(a), hi |-> Clip(b)]

PySliceRange(s, a, b) ==
    LET r == SliceBounds(Len(s), a, b) IN SubSeq(s, r.lo + 1, r.hi)

\* s.rfind(sub, a, b): the highest 0-based index at which sub lies inside
\* s[a:b], -1 when there is none
RFind(s, sub, a, b) ==
    LET r == SliceBounds(Len(s), a, b)
        at == { i \in r.lo..(r.hi - Len(sub)) : IsAt(s, i + 1, sub) }
    IN  IF at = {} THEN 0 - 1 ELSE CHOOSE i \in at : \A j \in at : j <= i

\* re.sub(r'\s+', ' ', s)
RECURSIVE CollapseWhitespace(_)
CollapseWhitespace(s) ==
    IF s = <<>> THEN <<>>
    ELSE LET e == RunEnd(s, 1, Whitespace) IN
         IF e > 1 THEN <<" ">> \o CollapseWhitespace(SubSeq(s, e, Len(s)))
         ELSE <<Head(s)>> \o CollapseWhitespace(Tail(s))

\* index just after a match of 'Page \d+ of \d+' (ignoring case) that starts
\* at i, 0 when there is none
PageOfEnd(s, i) ==
    LET low == Lower(s)
        d == i + 5
        e == DigitsEnd(s, d)
    IN  IF IsAt(low, i, <<"p", "a", "g", "e", " ">>) /\ e > d /\ IsAt(low, e, <<" ", "o", "f", " ">>)
           /\ DigitsEnd(s, e + 4) > e + 4
        THEN DigitsEnd(s, e + 4) ELSE 0

\* index just after a match of '\d+\s*/\s*\d+' that starts at i, 0 when there is none
FractionEnd(s, i) ==
    LET e == DigitsEnd(s, i)
        w == RunEnd(s, e, Whitespace)
        v == RunEnd(s, w + 1, Whitespace)
    IN  IF e > i /\ w <= Len(s) /\ s[w] = "/" /\ DigitsEnd(s, v) > v
        THEN DigitsEnd(s, v) ELSE 0

\* re.sub(pattern, '', s) for the two page-number patterns
RECURSIVE RemovePageOf(_)
RemovePageOf(s) ==
    IF s = <<>> THEN <<>>
    ELSE IF PageOfEnd(s, 1) # 0 THEN RemovePageOf(SubSeq(s, PageOfEnd(s, 1), Len(s)))
    ELSE <<Head(s)>> \o RemovePageOf(Tail(s))

RECURSIVE RemoveFractions(_)
RemoveFractions(s) ==
    IF s = <<>> THEN <<>>
    ELSE IF FractionEnd(s, 1) # 0 THEN RemoveFractions(SubSeq(s, FractionEnd(s, 1), Len(s)))
    ELSE <<Head(s)>> \o RemoveFractions(Tail(s))

\* the five str.replace calls
AsciiOf(c) ==
    CASE c = "u2019" -> <<"'">>
      [] c = "u201c" -> <<"\"">>
      [] c = "u201d" -> <<"\"">>
      [] c = "u2013" -> <<"-">>
      [] c = "u2014" -> <<"-", "-">>
      [] OTHER -> <<c>>

RECURSIVE NormalizeUnicode(_)
NormalizeUnicode(s) ==
    IF s = <<>> THEN <<>> ELSE AsciiOf(Head(s)) \o NormalizeUnicode(Tail(s))

clean_text(text) ==
    IF text = <<>> THEN <<>>
    ELSE Strip(NormalizeUnicode(RemoveFractions(RemovePageOf(CollapseWhitespace(text)))))

\* the sentence endings chunk_text looks for, in the order it tries them
SentenceEnds == << <<".", " ">>, <<".", "\n">>, <<"!", " ">>, <<"!", "\n">>, <<"?", " ">>, <<"?", "\n">> >>

\* end of the window that starts at start: start + chunk_size, moved back to
\* just after the last occurrence of the first sentence ending found
WindowEnd(text, start, chunk_size) ==
    LET end == start + chunk_size
        found == { k \in 1..Len(SentenceEnds) : RFind(text, SentenceEnds[k], start, end) # 0 - 1 }
    IN  IF end < Len(text) /\ found # {}
        THEN RFind(text, SentenceEnds[Min(found)], start, end) + Len(SentenceEnds[Min(found)])
        ELSE end

\* SingleChunk with len(text) < chunk_size
SingleChunkStrict(text, chunk_size) == text = <<>> \/ Len(text) < chunk_size

\* chunk_text up to its loop: "if not text or len(text) <= chunk_size"
SingleChunk(text, chunk_size) == text = <<>> \/ Len(text) <= chunk_size

NoSegment ==
    [pc |-> "idle", raw |-> <<>>, cleaned |-> TRUE, text |-> <<>>, chunk_size |-> 0,
     overlap |-> 0, start |-> 0, chunks |-> <<>>, windows |-> <<>>]

\* the segmenter is given a page text: process_pdf passes clean_text(raw) to
\* chunk_text (cleaned = TRUE); cleaned = FALSE is chunk_text called on raw itself
Segment(raw, chunk_size, overlap, cleaned) ==
    /\ seg.pc = "idle"
    /\ LET text == IF cleaned THEN clean_text(raw) ELSE raw IN
       seg' = [NoSegment EXCEPT
                 !.raw = raw, !.cleaned = cleaned, !.text = text,
                 !.chunk_size = chunk_size, !.overlap = overlap,
                 !.pc = IF SingleChunk(text, chunk_size) THEN "done" ELSE "loop",
                 !.chunks = IF SingleChunk(text, chunk_size) /\ text # <<>>
                            THEN <<text>> ELSE <<>>]
    /\ UNCHANGED <<now, gateway_vars, composer_vars, world_vars, retrieval, limiter_vars, api_vars>>

\* ChunkStep without the test "if chunk:"
ChunkStepKeepEmpty ==
    /\ seg.pc = "loop"
    /\ Len(seg.windows) < MaxWindows
    /\ LET end == WindowEnd(seg.text, seg.start, seg.chunk_size)
           chunk == Strip(PySliceRange(seg.text, seg.start, end))
           start == end - seg.overlap
       IN  seg' = [seg EXCEPT
                     !.chunks = Append(@, chunk),
                     !.windows = Append(@, [start |-> seg.start, end |-> end,
                                            emitted |-> TRUE]),
                     !.start = start,
                     !.pc = IF start >= Len(seg.text) THEN "done" ELSE "loop"]
    /\ UNCHANGED <<now, gateway_vars, composer_vars, world_vars, retrieval, limiter_vars, api_vars>>

\* one iteration of "while start < len(text)"
ChunkStep ==
    /\ seg.pc = "loop"
    /\ Len(seg.windows) < MaxWindows
    /\ LET end == WindowEnd(seg.text, seg.start, seg.chunk_size)
           chunk == Strip(PySliceRange(seg.text, seg.start, end))
           start == end - seg.overlap
       IN  seg' = [seg EXCEPT
                     !.chunks = IF chunk # <<>> THEN Append(@, chunk) ELSE @,
                     !.windows = Append(@, [start |-> seg.start, end |-> end,
                                            emitted |-> chunk # <<>>]),
                     !.start = start,
                     !.pc = IF start >= Len(seg.text) THEN "done" ELSE "loop"]
    /\ UNCHANGED <<now, gateway_vars, composer_vars, world_vars, retrieval, limiter_vars, api_vars>>

----------------------------------------------------------------------------
(* POST /api/chat/history (api.py chat_history) for one session. chat.rows is
   the session's part of the chat_messages table in the order of insertion,
   one question per row; every request thread reads it and then inserts. *)

\* ChatRepository.get_by_user(session_id, limit): the latest limit rows
get_by_user(rows, limit) ==
    IF Len(rows) <= limit THEN rows ELSE SubSeq(rows, Len(rows) - limit + 1, Len(rows))

NoChat ==
    [rows |-> <<>>, posts |-> 0,
     hpc |-> [t \in Callers |-> "idle"],
     body |-> [t \in Callers |-> [long_enough |-> FALSE, roles_ok |-> FALSE, content |-> <<>>]],
     existing_questions |-> [t \in Callers |-> {}],
     reply |-> [t \in Callers |-> "none"]]

\* the handler up to "existing_messages = ChatRepository.get_by_user(...)";
\* db_ok = FALSE: the query raises and the handler answers 500
PostHistory(t, body, db_ok) ==
    /\ chat.hpc[t] = "idle"
    /\ chat.posts < MaxPosts
    /\ chat' = IF ~body.long_enough
               THEN [chat EXCEPT !.posts = @ + 1, !.body[t] = body, !.reply[t] = "saved 0"]
               ELSE IF ~db_ok
               THEN [chat EXCEPT !.posts = @ + 1, !.body[t] = body, !.reply[t] = "500"]
               ELSE LET existing_messages == get_by_user(chat.rows, HistoryLimit) IN
                    [chat EXCEPT !.posts = @ + 1, !.body[t] = body, !.reply[t] = "none",
                                 !.hpc[t] = "read",
                                 !.existing_questions[t] =
                                     { existing_messages[i] : i \in 1..Len(existing_messages) }]
    /\ UNCHANGED <<now, gateway_vars, composer_vars, world_vars, retrieval, limiter_vars,
                   segmenter_vars, library>>

\* the rest of the handler: the test against existing_questions and
\* ChatRepository.create; db_ok = FALSE: create raises, the handler goes on
SaveHistory(t, db_ok) ==
    /\ chat.hpc[t] = "read"
    /\ LET user_content == chat.body[t].content
           is_new == /\ chat.body[t].roles_ok
                     /\ user_content # <<>>
                     /\ user_content \notin chat.existing_questions[t]
       IN  chat' = [chat EXCEPT
                      !.rows = IF is_new /\ db_ok THEN Append(@, user_content) ELSE @,
                      !.reply[t] = IF is_new /\ db_ok THEN "saved 1" ELSE "saved 0",
                      !.hpc[t] = "idle"]
    /\ UNCHANGED <<now, gateway_vars, composer_vars, world_vars, retrieval, limiter_vars,
                   segmenter_vars, library>>

----------------------------------------------------------------------------
(* POST /api/upload and DELETE /api/files/<id> (api.py) with process_pdf.
   library.docs is the pdf_documents table (id, filename), library.chunks the
   chunks table (document_id, source, page, text), library.disk the files of
   CHUNK_DIR. Storage uploads and the LLM summary change none of these and are
   left out. One request is handled at a time. *)

NoDoc == [id |-> 0, filename |-> <<>>]
NoReply == [op |-> "none", status |-> 0, file_id |-> 0, filename |-> <<>>,
            chunks_created |-> 0, chunks_saved_to_db |-> 0, created |-> <<>>, saved |-> <<>>]
NoLibrary ==
    [docs |-> {}, next_id |-> 1, chunks |-> <<>>, disk |-> <<>>, temps |-> 0,
     requests |-> 0, reply |-> NoReply]

\* filename.rsplit('.', 1)[0], and Path(name).stem for these names
RSplitDot(name) ==
    LET dots == { i \in 1..Len(name) : name[i] = "." }
    IN  IF dots = {} THEN name ELSE SubSeq(name, 1, (CHOOSE i \in dots : \A j \in dots : j <= i) - 1)

JsonlName(stem) == stem \o <<".", "j", "s", "o", "n", "l">>

\* tempfile.NamedTemporaryFile(delete=False, suffix='.pdf'): a fresh name each time
TempName(n) ==
    <<"t", "m", "p", <<"1", "2", "3", "4", "5", "6", "7", "8", "9">>[n], ".", "p", "d", "f">>

\* the lines of the file called name, <<>> when there is no such file
FileLines(disk, name) ==
    LET at == { i \in 1..Len(disk) : disk[i].name = name }
    IN  IF at = {} THEN <<>> ELSE disk[CHOOSE i \in at : TRUE].lines

FileExists(disk, name) == \E i \in 1..Len(disk) : disk[i].name = name

\* open(output_file, 'a') and the writes: the lines are added at the end of
\* the file, which is created when it does not exist
AppendLines(disk, name, lines) ==
    IF lines = <<>> THEN disk
    ELSE IF FileExists(disk, name)
    THEN [i \in 1..Len(disk) |->
            IF disk[i].name = name THEN [disk[i] EXCEPT !.lines = @ \o lines] ELSE disk[i]]
    ELSE Append(disk, [name |-> name, lines |-> lines])

\* the chunk data process_pdf writes for the PDF at pdf_path: content.chunks
\* are the (page, text) pairs that its pages give through clean_text and chunk_text
ChunkData(pdf_name, content) ==
    [i \in 1..Len(content.chunks) |->
        [source |-> pdf_name, page |-> content.chunks[i].page, text |-> content.chunks[i].text]]

\* process_pdf(pdf_path, output_dir): the new CHUNK_DIR; a file fitz cannot
\* open (content.ok = FALSE) leaves it as it is
process_pdf(disk, pdf_name, content) ==
    IF content.ok
    THEN AppendLines(disk, JsonlName(RSplitDot(pdf_name)), ChunkData(pdf_name, content))
    ELSE disk

\* POST /api/upload of a file called filename; replace: replace_id or
\* replace_filename is given. lookup_ok, meta_ok, batch_ok = FALSE:
\* get_by_filename, PDFRepository.create/update, create_batch raise
Upload(filename, replace, content, lookup_ok, meta_ok, batch_ok) ==
    /\ library.requests < MaxRequests
    /\ IF ~lookup_ok
       THEN library' = [library EXCEPT !.requests = @ + 1,
                          !.reply = [NoReply EXCEPT !.op = "upload", !.status = 500,
                                                    !.filename = filename]]
       ELSE \E existing_file \in
                  IF \E d \in library.docs : d.filename = filename
                  THEN { d \in library.docs : d.filename = filename } ELSE {NoDoc} :
            LET update == existing_file # NoDoc /\ replace
                document_id == IF ~meta_ok THEN 0
                               ELSE IF update THEN existing_file.id ELSE library.next_id
                docs == IF meta_ok /\ ~update
                        THEN library.docs \cup {[id |-> document_id, filename |-> filename]}
                        ELSE library.docs
                pdf_name == TempName(library.temps + 1)
                disk == process_pdf(library.disk, pdf_name, content)
                chunk_file == JsonlName(RSplitDot(filename))
                lines == FileLines(disk, chunk_file)
                db_chunks == [i \in 1..Len(lines) |->
                                [document_id |-> document_id, source |-> lines[i].source,
                                 page |-> lines[i].page, text |-> lines[i].text]]
                saved == IF content.ok /\ FileExists(disk, chunk_file) /\ document_id # 0
                            /\ batch_ok
                         THEN db_chunks ELSE <<>>
            IN  library' = [library EXCEPT
                              !.requests = @ + 1,
                              !.temps = @ + 1,
                              !.docs = docs,
                              !.next_id = IF meta_ok /\ ~update THEN @ + 1 ELSE @,
                              !.disk = disk,
                              !.chunks = @ \o saved,
                              !.reply = [op |-> "upload",
                                         status |-> IF content.ok THEN 200 ELSE 500,
                                         file_id |-> document_id, filename |-> filename,
                                         chunks_created |-> IF content.ok THEN Len(content.chunks) ELSE 0,
                                         chunks_saved_to_db |-> Len(saved),
                                         created |-> IF content.ok THEN ChunkData(pdf_name, content) ELSE <<>>,
                                         saved |-> saved]]
    /\ UNCHANGED <<now, gateway_vars, composer_vars, world_vars, retrieval, limiter_vars,
                   segmenter_vars, chat>>

\* DELETE /api/files/<file_id>; chunks_ok, doc_ok = FALSE: the deletion of the
\* chunks, PDFRepository.delete raise
Delete(file_id, chunks_ok, doc_ok) ==
    /\ library.requests < MaxRequests
    /\ LET Other(c) == c.document_id # file_id
           found == \E d \in library.docs : d.id = file_id
       IN  library' =
             IF ~found
             THEN [library EXCEPT !.requests = @ + 1,
                     !.reply = [NoReply EXCEPT !.op = "delete", !.status = 404, !.file_id = file_id]]
             ELSE [library EXCEPT
                     !.requests = @ + 1,
                     !.chunks = IF chunks_ok THEN SelectSeq(@, Other) ELSE @,
                     !.docs = IF doc_ok THEN { d \in @ : d.id # file_id } ELSE @,
                     !.reply = [NoReply EXCEPT !.op = "delete",
                                               !.status = IF doc_ok THEN 200 ELSE 500,
                                               !.file_id = file_id]]
    /\ UNCHANGED <<now, gateway_vars, composer_vars, world_vars, retrieval, limiter_vars,
                   segmenter_vars, chat>>

----------------------------------------------------------------------------
(* Chunk store contents, chunk files and questions the model explores *)

Row(id, source, page, text, embedded) ==
    [id |-> id, source |-> source, page |-> page, text |-> text, embedded |-> embedded]

Row1 == Row(1, <<"B", "u", "l", "l", "e", "t", "i", "n", "-", "7", ".", "p", "d", "f">>, 2, Some(<<"E", "n", "g", " ", "o", "i", "l">>), TRUE)
Row2 == Row(2, <<"B", "u", "l", "l", "e", "t", "i", "n", "-", "7", ".", "p", "d", "f">>, 1, Some(<<>>), FALSE)
Row3 == Row(3, <<"B", "u", "l", "l", "e", "t", "i", "n", "-", "7", "1", ".", "p", "d", "f">>, 1, Some(<<"o", "i", "l">>), TRUE)
Row4 == Row(4, <<"B", "u", "l", "l", "e", "t", "i", "n", "-", "7">>, 3, Some(<<"f", "u", "e", "l">>), FALSE)
Row5 == Row(5, <<"m", "a", "n", "u", "a", "l", ".", "p", "d", "f">>, 0, NoneVal, TRUE)
DbRows == {Row1, Row2, Row3, Row4, Row5}

\* tables of at most n distinct rows
Tables(n) ==
    UNION { { s \in [1..m -> DbRows] : \A i, j \in 1..m : i # j => s[i] # s[j] } : m \in 0..n }

FileA == [name |-> <<"b", "u", "l", "l", "e", "t", "i", "n", "-", "7", ".", "j", "s", "o", "n", "l">>,
          lines |-> << [source |-> <<"B", "u", "l", "l", "e", "t", "i", "n", "-", "7", ".", "p", "d", "f">>, page |-> 2, text |-> Some(<<"o", "i", "l">>)],
                       [source |-> <<"B", "u", "l", "l", "e", "t", "i", "n", "-", "7", ".", "p", "d", "f">>, page |-> 1] >>]
FileB == [name |-> <<"M", "a", "n", "u", "a", "l", ".", "j", "s", "o", "n", "l">>,
          lines |-> << [source |-> <<"M", "a", "n", "u", "a", "l", ".", "p", "d", "f">>, page |-> 1, text |-> Some(<<"E", "n", "g">>)],
                       BadLine,
                       [source |-> <<"M", "a", "n", "u", "a", "l", ".", "p", "d", "f">>, page |-> 2, text |-> Some(<<"o", "i", "l">>)] >>]
FileC == [name |-> <<"n", "o", "t", "e", "s", ".", "j", "s", "o", "n", "l">>, lines |-> << NotADict >>]
\* a two-page document whose chunks were appended to its file twice
FileD == [name |-> <<"b", "u", "l", "l", "e", "t", "i", "n", "-", "7", ".", "j", "s", "o", "n", "l">>,
          lines |-> << [source |-> <<"b", "u", "l", "l", "e", "t", "i", "n", "-", "7", ".", "p", "d", "f">>, page |-> 1, text |-> Some(<<"E", "n", "g">>)],
                       [source |-> <<"b", "u", "l", "l", "e", "t", "i", "n", "-", "7", ".", "p", "d", "f">>, page |-> 2, text |-> Some(<<"o", "i", "l">>)],
                       [source |-> <<"b", "u", "l", "l", "e", "t", "i", "n", "-", "7", ".", "p", "d", "f">>, page |-> 1, text |-> Some(<<"E", "n", "g">>)],
                       [source |-> <<"b", "u", "l", "l", "e", "t", "i", "n", "-", "7", ".", "p", "d", "f">>, page |-> 2, text |-> Some(<<"o", "i", "l">>)] >>]
FileWorlds == { <<>>, <<FileA>>, <<FileA, FileB>>, <<FileB, FileC>>, <<FileD>> }

Questions ==
    { <<"o", "i", "l">>, <<"E", "n", "g", " ", "o", "i", "l">>, <<"o", "i", "l", " ", "o", "i", "l">>, <<>>, <<"a", " ", "b">>, <<"f", "u", "e", "l", " ", "p", "u", "m", "p">>,
      <<"b", "u", "l", "l", "e", "t", "i", "n", " ", "7">>, <<"B", "u", "l", "l", "e", "t", "i", "n", "-", "7", ".", "2">>, <<"a", "b", "o", "u", "t", " ", "b", "u", "l", "l", "e", "t", "i", "n">>, <<"b", "u", "l", "l", "e", "t", "i", "n", " ", "x", " ", "7", "1">> }

\* what ask_with_rag is asked in the composer's specification
AskQuestions == { <<"o", "i", "l">>, <<"b", "u", "l", "l", "e", "t", "i", "n", " ", "7">> }

ApiKeys == { <<>>, <<"s", "k">> }

\* the chunk store and chunk files of the composer's specification
AskWorlds ==
    { [table |-> <<Row1, Row3>>, files |-> <<FileA>>],
      [table |-> <<Row2, Row5>>, files |-> <<FileB, FileC>>] }

\* pieces of page text, and the page texts made of up to n of them
RawTokens ==
    { <<"a">>, <<"a", "a", "a", "a">>, <<".", " ">>, <<" ">>, <<"!">>, <<"!", " ">>, <<"\n">>, <<"1", "/", "2">>, <<"P", "a", "g", "e", " ", "1", " ", "o", "f", " ", "2">>, <<"u2014">> }

RECURSIVE RawTexts(_)
RawTexts(n) ==
    IF n = 0 THEN { <<>> }
    ELSE RawTexts(n - 1) \cup { t \o k : t \in RawTexts(n - 1), k \in RawTokens }

\* chunk_size and overlap, scaled down from process_pdf's 1000 and 200
SegParams ==
    { [chunk_size |-> 3, overlap |-> 1], [chunk_size |-> 3, overlap |-> 2],
      [chunk_size |-> 4, overlap |-> 0], [chunk_size |-> 7, overlap |-> 3] }

----------------------------------------------------------------------------
(* Specifications *)

InitGateway ==
    /\ now = ClockStart
    /\ pc = [t \in Callers |-> "idle"]
    /\ max_retries = [t \in Callers |-> 0]
    /\ attempt = [t \in Callers |-> 0]
    /\ in_flight = [t \in Callers |-> NoneVal]
    /\ log = [t \in Callers |-> <<>>]
    /\ result = [t \in Callers |-> Pending]
    /\ wake = [t \in Callers |-> 0]
    /\ requests = <<>>

InitLimiter ==
    /\ last_request_time = 0
    /\ lock = 0
    /\ lpc = [t \in Callers |-> "idle"]
    /\ current_time = [t \in Callers |-> 0]
    /\ lwake = [t \in Callers |-> 0]
    /\ passed = <<>>
    /\ arrived = [t \in Callers |-> 0]

InitComposer ==
    /\ cpc = [t \in Callers |-> "idle"]
    /\ question = [t \in Callers |-> <<>>]
    /\ messages = [t \in Callers |-> NoMessages]
    /\ answer = [t \in Callers |-> Pending]
    /\ retrieval = NoRetrieval

InitSegmenter == seg = NoSegment

InitApi == chat = NoChat /\ library = NoLibrary

\* one request thread that calls ask_with_rag, or query_openrouter directly
Init ==
    /\ InitGateway
    /\ InitComposer
    /\ InitLimiter
    /\ InitSegmenter
    /\ InitApi
    /\ api_key \in ApiKeys
    /\ \E w \in AskWorlds : chunks_table = w.table /\ chunk_files = w.files

Next ==
    \/ \E mr \in 0..MaxRetries : Call(1, mr)
    \/ \E q \in AskQuestions : Ask(1, q)
    \/ \E db_ok, semantic \in BOOLEAN : AskRetrieve(1, db_ok, semantic)
    \/ AskCompose(1)
    \/ AskFinish(1)
    \/ Post(1)
    \/ \E r \in ProviderAnswers : Answer(1, r)
    \/ Handle(1)
    \/ WakeUp(1)
    \/ Exhausted(1)
    \/ SleepTick(1)

Spec == Init /\ [][Next]_vars

\* load_relevant_chunks called on every chunk store and question of the bounds
InitRetrieve ==
    /\ InitGateway
    /\ InitComposer
    /\ InitLimiter
    /\ InitSegmenter
    /\ InitApi
    /\ api_key \in ApiKeys
    /\ chunks_table \in Tables(MaxRows)
    /\ chunk_files \in FileWorlds

NextRetrieve ==
    \E q \in Questions, k \in 0..MaxTopK, db_ok, semantic \in BOOLEAN :
        Retrieve(q, k, db_ok, semantic)

SpecRetrieve == InitRetrieve /\ [][NextRetrieve]_vars

\* two request threads call query_openrouter at any time
PacingAnswers ==
    { HttpResponse(429, NoHeaders, NoBody),
      HttpResponse(500, NoHeaders, NoBody),
      HttpResponse(200, NoHeaders, JsonBody([choices |-> <<[message |-> [content |-> <<"o", "k">>]]>>])) }

NextPacing ==
    \/ \E t \in Callers : Call(t, DefaultMaxRetries)
    \/ \E t \in Callers : Post(t)
    \/ \E t \in Callers, r \in PacingAnswers : Answer(t, r)
    \/ \E t \in Callers : Handle(t)
    \/ \E t \in Callers : WakeUp(t)
    \/ \E t \in Callers : Exhausted(t)
    \/ TickTo(PacingHorizon)

\* one chunk store and a configured key: neither matters to query_openrouter
InitPacing ==
    /\ InitGateway
    /\ InitComposer
    /\ InitLimiter
    /\ InitSegmenter
    /\ InitApi
    /\ api_key = <<"s", "k">>
    /\ chunks_table = <<>>
    /\ chunk_files = <<>>

SpecPacing == InitPacing /\ [][NextPacing]_vars

\* the threads call wait_if_needed over and over
NextLimiter ==
    \/ \E t \in Callers : Arrive(t)
    \/ \E t \in Callers : Acquire(t)
    \/ \E t \in Callers : ReadClock(t)
    \/ \E t \in Callers : EndWait(t)
    \/ \E t \in Callers : Record(t)
    \/ \E t \in Callers : Release(t)
    \/ Tick

SpecLimiter == InitPacing /\ [][NextLimiter]_vars

\* the segmenter applied to every page text of the bounds
NextSegment ==
    \/ /\ seg.pc = "idle"
       /\ \E raw \in RawTexts(MaxTokens), p \in SegParams, cleaned \in BOOLEAN :
            Segment(raw, p.chunk_size, p.overlap, cleaned)
    \/ ChunkStep

SpecSegment == InitPacing /\ [][NextSegment]_vars

\* request bodies of POST /api/chat/history: fewer than two messages, a last
\* pair with the wrong roles, and a user/assistant pair with each question
HistoryBodies ==
    { [long_enough |-> FALSE, roles_ok |-> FALSE, content |-> <<>>],
      [long_enough |-> TRUE, roles_ok |-> FALSE, content |-> <<"a">>] }
    \cup { [long_enough |-> TRUE, roles_ok |-> TRUE, content |-> q] :
             q \in { <<>>, <<"a">>, <<"b">>, <<"c">> } }

\* two request threads post to /api/chat/history at any time
NextHistory ==
    \/ \E t \in Callers, body \in HistoryBodies, db_ok \in BOOLEAN : PostHistory(t, body, db_ok)
    \/ \E t \in Callers, db_ok \in BOOLEAN : SaveHistory(t, db_ok)

SpecHistory == InitPacing /\ [][NextHistory]_vars

\* the documents present when the server starts: none, or one whose chunk file
\* and chunk rows were loaded beforehand (upload_existing_files.py)
ManualPdf == <<"m", ".", "p", "d", "f">>
NotesPdf == <<"n", ".", "p", "d", "f">>
LoadedLibrary ==
    [NoLibrary EXCEPT
       !.docs = {[id |-> 1, filename |-> ManualPdf]},
       !.next_id = 2,
       !.chunks = <<[document_id |-> 1, source |-> ManualPdf, page |-> 1, text |-> <<"o", "l", "d">>]>>,
       !.disk = <<[name |-> JsonlName(RSplitDot(ManualPdf)),
                   lines |-> <<[source |-> ManualPdf, page |-> 1, text |-> <<"o", "l", "d">>]>>]>>]

\* uploaded files: one that fitz cannot open, one page of one chunk, two chunks
PdfContents ==
    { [ok |-> FALSE, chunks |-> <<>>],
      [ok |-> TRUE, chunks |-> <<[page |-> 1, text |-> <<"n", "e", "w">>]>>],
      [ok |-> TRUE, chunks |-> <<[page |-> 1, text |-> <<"n", "e", "w">>],
                                 [page |-> 2, text |-> <<"e", "n", "d">>]>>] }

InitLibrary ==
    /\ InitGateway
    /\ InitComposer
    /\ InitLimiter
    /\ InitSegmenter
    /\ chat = NoChat
    /\ library \in {NoLibrary, LoadedLibrary}
    /\ api_key = <<"s", "k">>
    /\ chunks_table = <<>>
    /\ chunk_files = <<>>

NextLibrary ==
    \/ /\ library.requests < MaxRequests
       /\ \E filename \in {ManualPdf, NotesPdf}, replace \in BOOLEAN, content \in PdfContents,
              lookup_ok, meta_ok, batch_ok \in BOOLEAN :
            Upload(filename, replace, content, lookup_ok, meta_ok, batch_ok)
    \/ /\ library.requests < MaxRequests
       /\ \E file_id \in 1..MaxRequests, chunks_ok, doc_ok \in BOOLEAN :
            Delete(file_id, chunks_ok, doc_ok)

SpecLibrary == InitLibrary /\ [][NextLibrary]_vars

----------------------------------------------------------------------------
(* The claims *)

\* the requests.post calls a caller has made
RequestsBy(t) == Cardinality({ i \in 1..Len(requests) : requests[i].by = t })

\* C1: any two outbound requests to the provider, of one call or of two
\* concurrent calls, start at least the pacing interval apart.
C1_RequestsPaced ==
    \A i, j \in 1..Len(requests) :
        i < j => requests[j].at - requests[i].at >= MinDelay

\* C2: any two wait_if_needed calls record last_request_time at least min_delay
\* seconds apart, and at most one thread at a time is between reading and
\* writing last_request_time.
InsideGate(t) == lpc[t] \in {"locked", "sleeping", "record", "release"}

C2_LimiterSpacing ==
    /\ \A i, j \in 1..Len(passed) : i < j => passed[j].at - passed[i].at >= MinDelay
    /\ \A t, u \in Callers : (InsideGate(t) /\ InsideGate(u)) => t = u
    /\ \A t \in Callers : InsideGate(t) => lock = t

\* two threads passed the gate, the second exactly min_delay after the first,
\* and a thread is blocked at the lock while the other holds it
C2_Witness ==
    /\ Len(passed) >= 2
    /\ passed[1].by # passed[2].by
    /\ passed[2].at - passed[1].at = MinDelay
    /\ \E t, u \in Callers : lpc[t] = "at_gate" /\ InsideGate(u)

\* C3: when every attempt is answered with 429, query_openrouter makes exactly
\* max_retries requests and then returns None (max_retries >= 1).
Only429(t) ==
    \A i \in 1..Len(log[t]) : ~log[t][i].answer.raised /\ log[t][i].answer.status = 429

C3_Exactly429Attempts ==
    \A t \in Callers :
        (pc[t] = "done" /\ max_retries[t] >= 1 /\ Only429(t))
            => (RequestsBy(t) = max_retries[t] /\ result[t] = Returned(NoneVal))

\* C4: a 404 or 401 answer ends the call with None at that attempt: it is the
\* last request of the call and no sleep follows it; as first answer it leaves
\* exactly one request.
Terminal(r) == ~r.raised /\ r.status \in {404, 401}

C4_NoRetryOn404Or401 ==
    \A t \in Callers : \A i \in 1..Len(log[t]) :
        Terminal(log[t][i].answer)
            => /\ i = Len(log[t])
               /\ log[t][i].did = Return(NoneVal)
               /\ pc[t] = "done"
               /\ result[t] = Returned(NoneVal)
               /\ RequestsBy(t) = i

\* a call with max_retries = 3 whose second attempt got the 404, after a
\* retried first attempt
C4_Witness ==
    /\ max_retries[1] = 3
    /\ Len(log[1]) = 2
    /\ log[1][1].did.kind = "sleep"
    /\ Terminal(log[1][2].answer)
    /\ pc[1] = "done"

\* C5: query_openrouter never raises: it returns the text or None.
C5_GatewayNeverRaises ==
    \A t \in Callers : result[t].kind # "raised"

\* C6: ask_with_rag never raises and always returns a string.
C6_AskAlwaysReturnsString ==
    \A t \in Callers :
        /\ answer[t].kind # "raised"
        /\ cpc[t] = "done" => (answer[t].kind = "returned" /\ ~answer[t].value.is_none)

\* C7: without a credential ask_with_rag returns the configuration error at
\* once: no chunk retrieval, no request to the provider.
Asked(t) == cpc[t] \notin {"idle", "direct"}

C7_NoKeyNoCalls ==
    \A t \in Callers :
        (api_key = <<>> /\ Asked(t))
            => /\ cpc[t] = "done"
               /\ answer[t] = Returned(Some(CONFIG_ERROR))
               /\ ~retrieval.called
               /\ RequestsBy(t) = 0
               /\ pc[t] = "idle"

C7_Witness == api_key = <<>> /\ Asked(1) /\ cpc[1] = "done"

\* C8: with the credential set, ask_with_rag returns the cleaned model text
\* whenever query_openrouter returned a text (the empty one included), and the
\* apology exactly when query_openrouter returned None.
GatewayEnded(t) == cpc[t] = "done" /\ pc[t] = "done" /\ result[t].kind = "returned"

C8_AnswerFollowsGateway ==
    \A t \in Callers :
        GatewayEnded(t)
            => /\ ~result[t].value.is_none
                    => answer[t] = Returned(Some(clean_response(result[t].value.v)))
               /\ answer[t] = Returned(Some(APOLOGY)) <=> result[t].value.is_none

\* C9: without a target document load_relevant_chunks returns at most top_k
\* chunks.
NoTarget == detect_bulletin_query(retrieval.query).is_none

C9_AtMostTopK ==
    (retrieval.called /\ NoTarget /\ ~retrieval.out.raised)
        => Len(retrieval.out.chunks) <= retrieval.top_k

\* more chunks of the pool match the question than top_k allows, and top_k of
\* them are returned
C9_Witness ==
    /\ retrieval.called /\ NoTarget /\ ~retrieval.out.raised
    /\ retrieval.top_k >= 1
    /\ Len(retrieval.out.chunks) = retrieval.top_k
    /\ Cardinality({ i \in 1..Len(retrieval.pool) :
                       Score(retrieval.pool[i], Split(Lower(retrieval.query))) > 0 })
            > retrieval.top_k

\* C10: no chunk returned by load_relevant_chunks has an empty text.
HasText(chunk) ==
    /\ IsDict(chunk)
    /\ DictGet(chunk, "text", Some(<<>>)) # Some(<<>>)

C10_NoEmptyText ==
    (retrieval.called /\ ~retrieval.out.raised)
        => \A i \in 1..Len(retrieval.out.chunks) : HasText(retrieval.out.chunks[i])

\* C11: when some candidate scores, the result is the first top_k positive-score
\* candidates by descending score, equal scores in pool order; no zero-score
\* candidate is returned.
QueryTerms == Split(Lower(retrieval.query))
PoolScore(i) == Score(retrieval.pool[i], QueryTerms)
Positives == { i \in 1..Len(retrieval.pool) : PoolScore(i) > 0 }

\* candidate i comes before candidate j in the ranking
RankedBefore(i, j) ==
    PoolScore(i) > PoolScore(j) \/ (PoolScore(i) = PoolScore(j) /\ i < j)

\* number of positive candidates ranked before candidate i
Rank(i) == Cardinality({ j \in Positives : RankedBefore(j, i) })

ScoredPath == retrieval.called /\ NoTarget /\ ~retrieval.out.raised /\ retrieval.pool # <<>>

C11_TopScoredStable ==
    (ScoredPath /\ Positives # {})
        => /\ Len(retrieval.out.chunks) = Min({retrieval.top_k, Cardinality(Positives)})
           /\ \A k \in 1..Len(retrieval.out.chunks) :
                 \E i \in Positives :
                     Rank(i) = k - 1 /\ retrieval.out.chunks[k] = retrieval.pool[i]

\* two candidates tie, a third scores nothing, and top_k cuts between the two
C11_Witness ==
    /\ ScoredPath /\ retrieval.top_k >= 1
    /\ Cardinality(Positives) > retrieval.top_k
    /\ Cardinality(Positives) < Len(retrieval.pool)
    /\ \E i, j \in Positives : i < j /\ PoolScore(i) = PoolScore(j)

\* C12: when the pool is not empty and no candidate scores, the result is the
\* first min(top_k, n) candidates in pool order.
C12_ZeroScoreFallback ==
    (ScoredPath /\ Positives = {})
        => retrieval.out.chunks =
             SubSeq(retrieval.pool, 1, Min({retrieval.top_k, Len(retrieval.pool)}))

\* a pool of two candidates that score nothing, cut to the first
C12_Witness ==
    /\ ScoredPath /\ Positives = {}
    /\ retrieval.top_k = 1 /\ Len(retrieval.pool) >= 2
    /\ retrieval.out.chunks = <<retrieval.pool[1]>>

\* C13: in full-document mode load_relevant_chunks returns every chunk of the
\* target, ordered by non-decreasing page, whatever top_k, from the chunk
\* store and from the chunk-file fallback.
FullDocument ==
    /\ retrieval.called /\ ~NoTarget /\ ~retrieval.out.raised
    /\ retrieval.out.chunks # <<>>

\* the chunks the target has: its rows in the store, or the lines of its file
TargetChunks ==
    LET target == detect_bulletin_query(retrieval.query)
        Named(f) == f.name = Lower(target.v) \o <<".", "j", "s", "o", "n", "l">>
        Good(l) == l # BadLine
        named == SelectSeq(chunk_files, Named)
    IN  IF retrieval.db_ok THEN get_by_source(chunks_table, target.v)
        ELSE IF named = <<>> THEN <<>> ELSE SelectSeq(named[1].lines, Good)

PageOf(chunk) == DictGet(chunk, "page", 0)

C13_FullDocumentSorted ==
    FullDocument
        => /\ Len(retrieval.out.chunks) = Len(TargetChunks)
           /\ \A i, j \in 1..Len(retrieval.out.chunks) :
                 i < j => PageOf(retrieval.out.chunks[i]) <= PageOf(retrieval.out.chunks[j])

\* C14: detect_bulletin_query returns "Bulletin-<number>" with the complete
\* number that follows the word bulletin (optional single separator, decimal
\* part included), and no target for a question without such a pattern.
CompleteNumber(s) ==
    LET hits == { i \in 1..Len(s) : NumberStart(s, i) # 0 }
    IN  IF hits = {} THEN NoneVal
        ELSE LET j == NumberStart(s, Min(hits))
                 e == IF NumberEnd(s, j, TRUE) # 0 THEN NumberEnd(s, j, TRUE)
                      ELSE NumberEnd(s, j, FALSE)
             IN  Some(BulletinDash \o SubSeq(s, j, e - 1))

C14_CompleteBulletinNumber ==
    retrieval.called
        => detect_bulletin_query(retrieval.query) = CompleteNumber(Lower(retrieval.query))

\* C15: every chunk emitted by chunk_text is at most chunk_size + overlap long
\* and is not empty after trimming whitespace.
ChunksBoundedNonEmpty ==
    \A k \in 1..Len(seg.chunks) :
        /\ Len(seg.chunks[k]) <= seg.chunk_size + seg.overlap
        /\ Strip(seg.chunks[k]) # <<>>

C15_ChunksBoundedNonEmpty == ChunksBoundedNonEmpty

\* C15 as it holds: for every text that clean_text has normalized.
C15_NormalizedChunksBoundedNonEmpty == seg.cleaned => ChunksBoundedNonEmpty

\* a normalized text cut into chunks, one window of which held nothing to emit
C15_Witness ==
    /\ seg.cleaned /\ seg.pc = "done"
    /\ Len(seg.chunks) >= 2
    /\ \E k \in 1..Len(seg.windows) : ~seg.windows[k].emitted

\* C16: when the normalized text is no longer than chunk_size, the segmenter
\* returns exactly that text as its one chunk, or no chunk when it is empty.
C16_ShortTextOneChunk ==
    (seg.pc # "idle" /\ seg.cleaned /\ Len(clean_text(seg.raw)) <= seg.chunk_size)
        => /\ seg.pc = "done"
           /\ seg.chunks = IF clean_text(seg.raw) = <<>> THEN <<>>
                            ELSE <<clean_text(seg.raw)>>

\* a page text that normalization changed into a text of exactly chunk_size
\* characters, returned as the one chunk
C16_Witness ==
    /\ seg.pc = "done" /\ seg.cleaned
    /\ seg.raw # seg.text
    /\ Len(seg.text) = seg.chunk_size
    /\ seg.chunks = <<seg.text>>

\* C17: the chunks cover the normalized text: no character of it, other than
\* whitespace trimmed at chunk edges, is missing from every chunk.
InWindow(i, w) ==
    LET r == SliceBounds(Len(seg.text), w.start, w.end)
    IN  w.emitted /\ r.lo < i /\ i <= r.hi

C17_ChunksCoverText ==
    (seg.pc = "done" /\ seg.cleaned /\ seg.windows # <<>>)
        => \A i \in 1..Len(seg.text) :
              seg.text[i] \notin Whitespace
                  => \E k \in 1..Len(seg.windows) : InWindow(i, seg.windows[k])

\* C18: at each step of the sliding window the new start is strictly greater
\* than the previous one.
C18_StartAdvances ==
    /\ \A k \in 1..(Len(seg.windows) - 1) :
          seg.windows[k + 1].start > seg.windows[k].start
    /\ seg.windows # <<>> => seg.start > Last(seg.windows).start

\* C19: threads pass the gate in the order of their arrival: a thread never
\* takes the lock while another thread that called wait_if_needed at an
\* earlier time is still waiting for it.
AcquiredBy(t) == lpc[t] = "at_gate" /\ lpc'[t] = "locked"

C19_ReleasedInArrivalOrder ==
    [][\A t, u \in Callers :
          (AcquiredBy(t) /\ lpc[u] = "at_gate") => arrived[t] <= arrived[u]]_vars

\* C20: an attempt that receives HTTP 200 with a malformed body ends the call
\* with the failure value: it is the last attempt, nothing is raised and no
\* sleep or further request follows.
C20_MalformedBodyEndsCall ==
    \A t \in Callers : \A i \in 1..Len(log[t]) :
        (~log[t][i].answer.raised /\ log[t][i].answer.status = 200
            /\ log[t][i].answer.body \in MalformedBodies)
            => /\ log[t][i].did = Return(NoneVal)
               /\ i = Len(log[t])

\* C21: an attempt a (from 0) that ends with a status other than 200, 429, 404
\* and 401, or with a transport exception, sleeps exactly 2^a seconds and goes
\* on to attempt a + 1 when it is not the last attempt, and ends the call with
\* None without sleeping when it is; a call of only such attempts makes exactly
\* max_retries requests.
OtherFailure(r) == r.raised \/ r.status \notin {200, 429, 404, 401}

C21_BackoffOnOtherFailures ==
    \A t \in Callers :
        /\ \A i \in 1..Len(log[t]) :
              OtherFailure(log[t][i].answer)
                  => IF i - 1 < max_retries[t] - 1
                     THEN /\ log[t][i].did = Sleep(Pow2(i - 1))
                          /\ i = Len(log[t]) => (pc[t] = "sleeping" /\ attempt[t] = i - 1)
                                                \/ (pc[t] \in {"loop", "posted", "answered"}
                                                      /\ attempt[t] = i)
                     ELSE /\ log[t][i].did = NextAttempt
                          /\ i = Len(log[t])
                          /\ pc[t] = "loop" \/ result[t] = Returned(NoneVal)
        /\ (pc[t] = "done" /\ \A i \in 1..Len(log[t]) : OtherFailure(log[t][i].answer))
              => (RequestsBy(t) = max_retries[t] /\ result[t] = Returned(NoneVal))

\* three attempts, a transport exception and two statuses 500: sleeps of 1 s
\* and 2 s, none after the third, and the call ended with None
C21_Witness ==
    /\ max_retries[1] = 3 /\ Len(log[1]) = 3 /\ pc[1] = "done"
    /\ log[1][1].answer.raised /\ log[1][2].answer.status = 500
    /\ log[1][3].answer.status = 500
    /\ log[1][1].did = Sleep(1) /\ log[1][2].did = Sleep(2)
    /\ RequestsBy(1) = 3

\* C22: a 429 on an attempt that is not the last is followed by a wait of the
\* integer value of the retry-after header when the header is present and
\* parses as an integer, of 2 seconds otherwise, and then by the next attempt;
\* a 429 on the last attempt returns None without waiting.
C22_WaitAfter429 ==
    \A t \in Callers : \A i \in 1..Len(log[t]) :
        LET r == log[t][i].answer
            retry_after == HeaderGet(r.headers, "retry-after")
            parsed == IF retry_after.is_none THEN [ok |-> FALSE, value |-> 0]
                      ELSE ParseInt(retry_after.v)
            wait_time == IF parsed.ok THEN parsed.value ELSE 2
        IN  (~r.raised /\ r.status = 429)
                => IF i - 1 < max_retries[t] - 1
                   THEN log[t][i].did = [kind |-> "sleep", value |-> NoneVal,
                                         secs |-> wait_time, error |-> ""]
                   ELSE log[t][i].did = Return(NoneVal)

\* C23: whatever the provider answers and whatever max_retries is, the call
\* posts at most max_retries requests, stops at the first success or terminal
\* outcome, never sleeps after its final request, and ends with a result (the
\* text or None).
Stops(r) ==
    ~r.raised /\ (r.status \in {404, 401}
                    \/ (r.status = 200 /\ r.body \in WellFormedBodies))

BoundedRetries(t) ==
    /\ RequestsBy(t) <= max_retries[t]
    /\ \A i \in 1..Len(log[t]) : Stops(log[t][i].answer) => i = Len(log[t]) /\ pc[t] = "done"
    /\ pc[t] = "sleeping" => attempt[t] < max_retries[t] - 1

C23_BoundedRetriesWithResult ==
    \A t \in Callers :
        /\ BoundedRetries(t)
        /\ pc[t] = "done" => result[t].kind = "returned"

\* C24: in scored retrieval the score of a candidate chunk is the number of
\* distinct query terms that occur in the lowercased chunk text: a term that the
\* question repeats counts once.
DistinctTermsIn(chunk) ==
    LET text_lower == Lower(DictGet(chunk, "text", Some(<<>>)).v)
    IN  Cardinality({ term \in { QueryTerms[k] : k \in 1..Len(QueryTerms) } :
                        Contains(text_lower, term) })

C24_ScoreCountsDistinctTerms ==
    ScoredPath => \A i \in 1..Len(retrieval.pool) : PoolScore(i) = DistinctTermsIn(retrieval.pool[i])

\* C25: when the chunk store lookup raises, load_relevant_chunks does not
\* raise: its result is made only of chunks read from the chunk files, and is
\* empty when no chunk is found there.
FromFiles(chunk) ==
    \E f \in 1..Len(chunk_files) : \E l \in 1..Len(chunk_files[f].lines) :
        chunk_files[f].lines[l] = chunk

C25_StoreFailureFallsBackToFiles ==
    (retrieval.called /\ ~retrieval.db_ok)
        => /\ ~retrieval.out.raised
           /\ \A k \in 1..Len(retrieval.out.chunks) : FromFiles(retrieval.out.chunks[k])
           /\ FileChunks(chunk_files, detect_bulletin_query(retrieval.query)) = <<>>
                 => retrieval.out.chunks = <<>>

\* C26: a window that ends before the end of the text and holds at least one
\* sentence terminator is cut just after the terminator nearest to the window's
\* end: after the last occurrence of any of the terminators inside the window.
CutsIn(start, chunk_size) ==
    { RFind(seg.text, SentenceEnds[k], start, start + chunk_size) + Len(SentenceEnds[k]) :
        k \in { j \in 1..Len(SentenceEnds) :
                  RFind(seg.text, SentenceEnds[j], start, start + chunk_size) # 0 - 1 } }

C26_CutAtNearestTerminator ==
    \A k \in 1..Len(seg.windows) :
        LET w == seg.windows[k]
            cuts == CutsIn(w.start, seg.chunk_size)
        IN  (w.start + seg.chunk_size < Len(seg.text) /\ cuts # {})
                => \A c \in cuts : c <= w.end

\* C27: in full-document mode all returned chunks belong to one document:
\* they share one source, and when the store holds chunks whose source is
\* exactly the target only those are returned.
SourceOf(chunk) == DictGet(chunk, "source", <<"u", "n", "k", "n", "o", "w", "n">>)

C27_OneDocument ==
    FullDocument
        => LET target == detect_bulletin_query(retrieval.query).v
               out == retrieval.out.chunks
           IN  /\ \A i, j \in 1..Len(out) : SourceOf(out[i]) = SourceOf(out[j])
               /\ (retrieval.db_ok /\ \E r \in 1..Len(chunks_table) :
                                         chunks_table[r].source = target)
                     => \A i \in 1..Len(out) : SourceOf(out[i]) = target

\* C28: whatever the interleaving of the POST /api/chat/history requests of a
\* session, the store never holds two turns of the session with the same
\* question.
C28_NoDuplicateQuestions ==
    \A i, j \in 1..Len(chat.rows) : i # j => chat.rows[i] # chat.rows[j]

\* C29: whenever DELETE /api/files/<id> reports success for a document, no
\* chunk with that document_id remains in the chunk store.
C29_DeletedWithChunks ==
    (library.reply.op = "delete" /\ library.reply.status = 200)
        => \A k \in 1..Len(library.chunks) :
              library.chunks[k].document_id # library.reply.file_id

\* C30: after an upload the document's chunk file holds each chunk of this
\* ingestion exactly once, and the chunk rows the upload wrote to the store are
\* exactly the chunks process_pdf created (chunks_saved_to_db = chunks_created).
PageText(line) == [page |-> line.page, text |-> line.text]
PagesTexts(lines) == [i \in 1..Len(lines) |-> PageText(lines[i])]

C30_ChunksCreatedOnce ==
    (library.reply.op = "upload" /\ library.reply.status = 200)
        => /\ PagesTexts(FileLines(library.disk, JsonlName(RSplitDot(library.reply.filename))))
                 = PagesTexts(library.reply.created)
           /\ library.reply.chunks_saved_to_db = library.reply.chunks_created
           /\ PagesTexts(library.reply.saved) = PagesTexts(library.reply.created)

====
